---- MODULE Spec2Model ----
(***************************************************************************)
(* bevy_prototype_scheduler: the UnorderedScheduler builder (src/lib.rs)   *)
(* and the UnorderedSchedulerSystem it builds (src/scheduling.rs): one     *)
(* scheduling task that admits queued systems, one spawned task per system *)
(* that waits for its notifier, locks and runs the system and sends its id *)
(* on the channel.                                                         *)
(***************************************************************************)
EXTENDS Integers, Sequences, FiniteSets, TLC

(* ------------------------------ bounds -------------------------------- *)

\* Number of depends_on calls made on one builder.
MaxDeps == 2
\* Number of times run_systems is called on one scheduler.
MaxRuns == 2
\* Largest archetypes generation the world reaches.
MaxGen == 2

(* ------------------------------ inputs -------------------------------- *)

\* The boxed systems handed to the builder; the number is the SystemId.
Systems == {1, 2, 3}

\* Names: what System::name() can report, and what a user can pass as a name.
SystemNames == {"s1", "s2", "s3"}
Names == SystemNames \cup {"x"}

\* What a system accesses: one resource and the entities of its query, each
\* immutably ("R") or mutably ("W").
AccessKinds ==
    { [res |-> "R", arch |-> "R"],
      [res |-> "W", arch |-> "R"],
      [res |-> "R", arch |-> "W"] }

\* ArchetypesGeneration(u64::MAX): no world of the model has this generation.
NoGeneration == -1

None == "None"

EmptyMap == [n \in {} |-> n]

VARIABLES
    \* the systems: System::name() and the accesses their bodies declare
    sys_name, sys_kind,
    \* UnorderedScheduler (the builder)
    builder_containers, last_added, moved, build, declared,
    \* the number of dependencies that were dropped together with an entry
    \* that an insertion replaced, for the properties only
    discarded,
    \* World
    world_generation,
    \* UnorderedSchedulerSystem
    system_containers, archetype_access, last_archetypes_generation,
    queued, running, dependants_scratch, channel,
    \* per system: Event notifier, Mutex around the system, spawned task
    notifier, lock, task,
    \* the scheduling task inside run_systems
    pc, cursor, to_check, other, runs,
    \* bookkeeping of the current run, for the properties only
    enqueued, signalled, executed, processed, batch,
    \* bookkeeping of the last prepare: the generation it found cached and
    \* the systems whose update_archetype_access it called
    updated,
    \* Schedule (src/schedule.rs): the stages, the label table, whether a
    \* call on it has panicked, and the number of stages boxed so far
    stages, index_table, schedule_state, boxed,
    \* the last call made on the schedule and what it returned, for the
    \* properties only
    call

builderVars ==
    <<builder_containers, last_added, moved, build, declared, discarded>>
systemVars == <<sys_name, sys_kind>>
scheduleVars == <<stages, index_table, schedule_state, boxed, call>>
schedVars ==
    <<system_containers, archetype_access, last_archetypes_generation,
      queued, running, dependants_scratch, channel>>
taskVars == <<notifier, lock, task>>
orchVars == <<pc, cursor, to_check, other, runs>>
histVars == <<enqueued, signalled, executed, processed, batch, updated>>

vars ==
    <<sys_name, sys_kind, builder_containers, last_added, moved, build,
      declared, world_generation, system_containers, archetype_access,
      last_archetypes_generation, queued, running, dependants_scratch,
      channel, notifier, lock, task, pc, cursor, to_check, other, runs,
      enqueued, signalled, executed, processed, batch, updated, discarded,
      stages, index_table, schedule_state, boxed, call>>

(* ------------------------------ helpers ------------------------------- *)

Range(s) == {s[i] : i \in 1..Len(s)}

\* The orders in which a HashMap or HashSet can hand out the elements of S.
Perms(S) ==
    {p \in [1..Cardinality(S) -> S] : \A x \in S : \E i \in DOMAIN p : p[i] = x}

SeqsUpTo(S, n) == UNION {[1..k -> S] : k \in 0..n}

RECURSIVE Flatten(_)
Flatten(ss) == IF ss = <<>> THEN <<>> ELSE Head(ss) \o Flatten(Tail(ss))

RECURSIVE CountIn(_, _)
CountIn(x, s) ==
    IF s = <<>> THEN 0
    ELSE (IF Head(s) = x THEN 1 ELSE 0) + CountIn(x, Tail(s))

Ids == DOMAIN system_containers

(* --------------------------- access model ----------------------------- *)

\* TypeAccess of a system: the (resource, mode) pairs it declares.
ResourceAccess(kind) == {<<"resource", kind.res>>}

\* ArchetypeAccess as update_archetype_access computes it from the world:
\* the system's query mode on every archetype the world holds.
ArchetypesOf(generation) == 1..generation
ComputeArchetypeAccess(kind, generation) ==
    {<<a, kind.arch>> : a \in ArchetypesOf(generation)}

\* is_compatible: no item accessed by both with either side mutable.
IsCompatible(a, b) ==
    \A x \in a, y \in b : x[1] = y[1] => (x[2] = "R" /\ y[2] = "R")

(* ------------------- UnorderedScheduler (src/lib.rs) ------------------ *)

BuilderSystemContainer(system) == [system |-> system, dependencies |-> <<>>]

\* Mutation of MapInsert: an entry already under `name` is kept.
MapInsertKeepsFirst(map, name, value) ==
    [n \in DOMAIN map \cup {name} |->
        IF n \in DOMAIN map THEN map[n] ELSE value]

\* HashMap::insert: the entry under `name` is set, a previous one is dropped.
MapInsert(map, name, value) ==
    [n \in DOMAIN map \cup {name} |-> IF n = name THEN value ELSE map[n]]

\* Every dependency pushed onto the builder so far, container by container.
DeclaredDeps(map) ==
    LET names == CHOOSE p \in Perms(DOMAIN map) : TRUE
    IN  Flatten([i \in 1..Len(names) |-> map[names[i]].dependencies])

\* add_named_system(name, system)
AddNamedSystem(name, system) ==
    /\ build = "building"
    /\ system \notin moved
    /\ last_added' = name
    /\ builder_containers' =
           MapInsert(builder_containers, name, BuilderSystemContainer(system))
    /\ moved' = moved \cup {system}
    /\ discarded' = discarded +
           IF name \in DOMAIN builder_containers
           THEN Len(builder_containers[name].dependencies) ELSE 0
    /\ UNCHANGED <<build, declared, systemVars, scheduleVars, world_generation, schedVars,
                   taskVars, orchVars, histVars>>

\* add_system(system): add_named_system under the system's own name.
AddSystem(system) == AddNamedSystem(sys_name[system], system)

\* depends_on(dependency_name): pushed onto the last inserted system's
\* dependencies; panics (expect) when no system was inserted yet.
DependsOn(dependency_name) ==
    /\ build = "building"
    /\ Len(DeclaredDeps(builder_containers)) + discarded < MaxDeps
    /\ IF last_added = None
       THEN /\ build' = "panic: insert a system first"
            /\ UNCHANGED builder_containers
       ELSE /\ builder_containers' =
                   [builder_containers EXCEPT ![last_added].dependencies =
                        Append(@, dependency_name)]
            /\ UNCHANGED build
    /\ UNCHANGED <<last_added, moved, declared, discarded, systemVars, scheduleVars,
                   world_generation, schedVars, taskVars, orchVars, histVars>>

\* The key under which into_system files a drained container in
\* ids_and_containers: container.system.name().
ContainerKey(container, name_of) == name_of[container.system]

\* into_system on the builder's map, drained in `order`. The result is
\* [ok |-> FALSE] when a dependee is not a key of ids_and_containers
\* (unwrap_or_else(|| unreachable!())), and the built containers otherwise.
IntoSystem(map, order, name_of) ==
    LET n == Len(order)
        drained == [i \in 1..n |-> map[order[i]]]
        \* all_dependencies, one (dependant, dependee) pair per push
        all_dependencies ==
            Flatten([i \in 1..n |->
                [j \in 1..Len(drained[i].dependencies) |->
                    <<drained[i].system, drained[i].dependencies[j]>>]])
        keys == {ContainerKey(drained[i], name_of) : i \in 1..n}
        \* collect(): a later entry with the same key replaces an earlier one
        last(k) == CHOOSE i \in 1..n :
                       /\ ContainerKey(drained[i], name_of) = k
                       /\ \A j \in (i+1)..n : ContainerKey(drained[j], name_of) # k
        ids_and_containers ==
            [k \in keys |->
                LET pushes == SelectSeq(all_dependencies, LAMBDA e : e[2] = k)
                IN  [id |-> drained[last(k)].system,
                     dependants |-> [i \in 1..Len(pushes) |-> pushes[i][1]],
                     deps_total |-> Len(drained[last(k)].dependencies),
                     deps_now |-> 0]]
        ids == {ids_and_containers[k].id : k \in keys}
        key_of(id) == CHOOSE k \in keys : ids_and_containers[k].id = id
    IN  IF \E e \in Range(all_dependencies) : e[2] \notin keys
        THEN [ok |-> FALSE, system_containers |-> EmptyMap]
        ELSE [ok |-> TRUE,
              system_containers |->
                  [id \in ids |->
                      [dependants |-> ids_and_containers[key_of(id)].dependants,
                       deps_total |-> ids_and_containers[key_of(id)].deps_total,
                       deps_now |-> 0]]]

\* into_system(self): consumes the builder.
Finalize ==
    /\ build = "building"
    /\ \E order \in Perms(DOMAIN builder_containers) :
         LET built == IntoSystem(builder_containers, order, sys_name)
         IN  /\ build' = IF built.ok THEN "built" ELSE "panic: unreachable"
             /\ system_containers' = built.system_containers
    /\ declared' = builder_containers
    /\ builder_containers' = EmptyMap
    /\ UNCHANGED <<last_added, moved, discarded, systemVars, scheduleVars, world_generation,
                   archetype_access, last_archetypes_generation, queued,
                   running, dependants_scratch, channel, taskVars, orchVars,
                   histVars>>

(* ----------------------------- initial states ------------------------- *)

\* Schedule::new(): no stage, no label, no call made yet.
NewSchedule ==
    /\ stages = <<>>
    /\ index_table = EmptyMap
    /\ schedule_state = "ok"
    /\ boxed = 0
    /\ call = [op |-> "new"]

\* What into_system leaves in the fields it does not take from the builder,
\* and the tasks, notifiers and locks before the first run.
FreshScheduler ==
    /\ archetype_access = [s \in Systems |-> {}]
    /\ last_archetypes_generation = NoGeneration
    /\ queued = <<>>
    /\ running = {}
    /\ dependants_scratch = <<>>
    /\ channel = <<>>
    /\ notifier = [s \in Systems |-> "none"]
    /\ lock = [s \in Systems |-> "free"]
    /\ task = [s \in Systems |-> "none"]
    /\ pc = "idle"
    /\ cursor = 0
    /\ to_check = {}
    /\ other = None
    /\ runs = 0
    /\ enqueued = [s \in Systems |-> 0]
    /\ signalled = [s \in Systems |-> 0]
    /\ executed = [s \in Systems |-> 0]
    /\ processed = {}
    /\ batch = 0
    /\ updated = [before |-> NoGeneration, ids |-> {}]

DistinctNames == (1 :> "s1") @@ (2 :> "s2") @@ (3 :> "s3")

\* AccessKinds in a fixed order, to number the systems by.
KindRank(kind) ==
    IF kind.res = "W" THEN 2 ELSE IF kind.arch = "W" THEN 3 ELSE 1

IsSorted(s) == \A i \in 1..(Len(s) - 1) : s[i] <= s[i + 1]

\* The scheduler as into_system builds it from a builder on which every
\* system was added under its own name (add_system) and at most MaxDeps
\* dependencies on added systems were declared. The systems are numbered in
\* the order of their access kinds and a system's dependencies are listed in
\* the order of the numbers: neither order reaches the built scheduler, which
\* hands out its containers in any order.
Init ==
    /\ sys_name = DistinctNames
    /\ sys_kind \in {k \in [Systems -> AccessKinds] :
                        IsSorted([i \in 1..3 |-> KindRank(k[i])])}
    /\ world_generation = 1
    /\ \E deps \in [Systems -> {d \in SeqsUpTo(Systems, MaxDeps) : IsSorted(d)}] :
         /\ Len(Flatten([i \in 1..3 |-> deps[i]])) <= MaxDeps
         /\ LET map == [n \in SystemNames |->
                          LET s == CHOOSE s \in Systems : sys_name[s] = n
                          IN  [system |-> s,
                               dependencies |->
                                   [i \in 1..Len(deps[s]) |-> sys_name[deps[s][i]]]]]
            IN  \E order \in Perms(SystemNames) :
                  LET built == IntoSystem(map, order, sys_name)
                  IN  /\ built.ok
                      /\ system_containers = built.system_containers
                      /\ declared = map
    /\ builder_containers = EmptyMap
    /\ last_added = None
    /\ moved = Systems
    /\ discarded = 0
    /\ build = "built"
    /\ FreshScheduler
    /\ NewSchedule

(* -------------- UnorderedSchedulerSystem (src/scheduling.rs) ---------- *)

\* Mutation of ResetCounter: prepare leaves the counter as the last run left it.
ResetCounterSkipped(container) == container.deps_now

\* prepare: container.deps_now = container.deps_total
ResetCounter(container) == container.deps_total

\* prepare: should_queue_now_filter_map
ShouldQueueNow(container) == container.deps_now = 0

\* Mutation of Notify: the notification does not reach the listener.
NotifyLost(state) == state

\* Event::listen / Event::notify(1) on one notifier with at most one listener:
\* a notification reaches a registered listener and is dropped without one.
Listen(state) == "listening"
Notify(state) == IF state = "listening" THEN "notified" ELSE state

\* Mutation of LoopContinues: the loop never ends.
LoopContinuesAlways(q, r) == TRUE

\* Mutation of LoopContinues: the loop ends once nothing is queued.
LoopContinuesWhileQueued(q, r) == q # <<>>

\* while !(self.queued.is_empty() && self.running.is_empty())
LoopContinues(q, r) == ~(q = <<>> /\ r = {})

\* Mutation of AccessCompatible: the archetype test is left out.
AccessCompatibleResourcesOnly(id, running_id) ==
    IsCompatible(ResourceAccess(sys_kind[id]),
                 ResourceAccess(sys_kind[running_id]))

\* The two is_compatible tests of can_start_now against one running system.
AccessCompatible(id, running_id) ==
    /\ IsCompatible(ResourceAccess(sys_kind[id]),
                    ResourceAccess(sys_kind[running_id]))
    /\ IsCompatible(archetype_access[id], archetype_access[running_id])

\* Mutation of Retain: the started systems are left in the queue.
RetainAll(q, r) == q

\* self.queued.retain(|id| !running.contains(id))
Retain(q, r) == SelectSeq(q, LAMBDA id : id \notin r)

\* Mutation of CounterSatisfied: a dependant is queued at every decrement.
CounterSatisfiedAlways(deps_now) == TRUE

\* Mutation of Decrement: the counter is decremented by two.
DecrementTwice(deps_now) == deps_now - 2

\* update_counters_and_queue_systems: container.deps_now -= 1 and the test
\* that queues the dependant.
Decrement(deps_now) == deps_now - 1
CounterSatisfied(deps_now) == deps_now = 0

\* update_counters_and_queue_systems over the drained scratch vector:
\* the containers, the queue and the count of pushes per system after it.
RECURSIVE UpdateCounters(_, _, _, _)
UpdateCounters(containers, q, pushes, scratch) ==
    IF scratch = <<>>
    THEN [containers |-> containers, queued |-> q, pushes |-> pushes]
    ELSE LET id == Head(scratch)
             now == Decrement(containers[id].deps_now)
             ready == CounterSatisfied(now)
         IN  UpdateCounters(
                 [containers EXCEPT ![id].deps_now = now],
                 IF ready THEN Append(q, id) ELSE q,
                 IF ready THEN [pushes EXCEPT ![id] = @ + 1] ELSE pushes,
                 Tail(scratch))

\* Mutation of ArchetypesChanged: the cached access is always reused.
ArchetypesChangedNever(cached, generation) == FALSE

\* prepare: the negation of
\* self.last_archetypes_generation == world.archetypes_generation()
ArchetypesChanged(cached, generation) == cached # generation

\* run_systems up to the start of the scheduling task: the entry assertions
\* and prepare, which resets the counters, spawns one listening task per
\* system, refreshes the archetype access when the world's generation is not
\* the cached one, and queues the systems without dependencies in the order
\* the container map hands them out.
RunSystems ==
    /\ pc = "idle"
    /\ build = "built"
    /\ runs < MaxRuns
    /\ IF ~(queued = <<>> /\ running = {} /\ dependants_scratch = <<>>)
          \/ \E id \in Ids : system_containers[id].deps_now # 0
       THEN /\ pc' = "panic: debug_assert"
            /\ UNCHANGED <<schedVars, taskVars, histVars>>
       ELSE \E order \in Perms(Ids) :
            LET containers ==
                    [id \in Ids |-> [system_containers[id] EXCEPT
                        !.deps_now = ResetCounter(system_containers[id])]]
                now == SelectSeq(order,
                           LAMBDA id : ShouldQueueNow(containers[id]))
            IN  /\ system_containers' = containers
                /\ notifier' = [s \in Systems |->
                       IF s \in Ids THEN Listen(notifier[s]) ELSE notifier[s]]
                /\ task' = [s \in Systems |->
                       IF s \in Ids THEN "listening" ELSE task[s]]
                /\ queued' = queued \o now
                /\ IF ArchetypesChanged(last_archetypes_generation,
                                        world_generation)
                   THEN /\ archetype_access' = [s \in Systems |->
                               IF s \in Ids
                               THEN ComputeArchetypeAccess(sys_kind[s],
                                                           world_generation)
                               ELSE archetype_access[s]]
                        /\ last_archetypes_generation' = world_generation
                        /\ updated' = [before |-> last_archetypes_generation,
                                       ids |-> Ids]
                   ELSE /\ UNCHANGED <<archetype_access,
                                       last_archetypes_generation>>
                        /\ updated' = [before |-> last_archetypes_generation,
                                       ids |-> {}]
                /\ enqueued' = [s \in Systems |->
                       IF s \in Range(now) THEN 1 ELSE 0]
                /\ signalled' = [s \in Systems |-> 0]
                /\ executed' = [s \in Systems |-> 0]
                /\ processed' = {}
                /\ batch' = 0
                /\ pc' = "loop"
                /\ UNCHANGED <<running, dependants_scratch, channel, lock>>
    /\ UNCHANGED <<cursor, to_check, other, runs, builderVars, systemVars, scheduleVars,
                   world_generation>>

\* The loop condition of the scheduling task.
LoopCheck ==
    /\ pc = "loop"
    /\ IF LoopContinues(queued, running)
       THEN pc' = "start_all" /\ cursor' = 1
       ELSE pc' = "join" /\ cursor' = 0
    /\ batch' = 0
    /\ UNCHANGED <<to_check, other, runs, builderVars, systemVars, scheduleVars,
                   world_generation, schedVars, taskVars, enqueued, signalled,
                   executed, processed, updated>>

\* start_all_runnable_queued_systems, next queued id: can_start_now locks
\* the system of that id and starts over the running set.
CanStartNow ==
    /\ pc = "start_all"
    /\ cursor <= Len(queued)
    /\ lock[queued[cursor]] = "free"
    /\ lock' = [lock EXCEPT ![queued[cursor]] = "scheduler"]
    /\ to_check' = running
    /\ pc' = "can_start_now"
    /\ UNCHANGED <<cursor, other, runs, builderVars, systemVars, scheduleVars,
                   world_generation, schedVars, notifier, task, histVars>>

\* can_start_now: lock() of the next running system; blocks while its task
\* holds the lock.
LockOther ==
    /\ pc = "can_start_now"
    /\ \E id \in to_check :
         /\ lock[id] = "free"
         /\ lock' = [lock EXCEPT ![id] = "scheduler"]
         /\ other' = id
    /\ pc' = "compare"
    /\ UNCHANGED <<cursor, to_check, runs, builderVars, systemVars, scheduleVars,
                   world_generation, schedVars, notifier, task, histVars>>

\* can_start_now: the access tests against the locked running system; its
\* guard is dropped, and on an incompatibility the call returns false.
Compare ==
    /\ pc = "compare"
    /\ IF AccessCompatible(queued[cursor], other)
       THEN /\ lock' = [lock EXCEPT ![other] = "free"]
            /\ to_check' = to_check \ {other}
            /\ pc' = "can_start_now"
            /\ UNCHANGED cursor
       ELSE /\ lock' = [lock EXCEPT ![other] = "free",
                                    ![queued[cursor]] = "free"]
            /\ to_check' = {}
            /\ pc' = "start_all"
            /\ cursor' = cursor + 1
    /\ other' = None
    /\ UNCHANGED <<runs, builderVars, systemVars, scheduleVars, world_generation, schedVars,
                   notifier, task, histVars>>

\* can_start_now returned true: the id is inserted into running and its
\* notifier is notified.
Start ==
    /\ pc = "can_start_now"
    /\ to_check = {}
    /\ LET id == queued[cursor]
       IN  /\ lock' = [lock EXCEPT ![id] = "free"]
           /\ running' = running \cup {id}
           /\ notifier' = [notifier EXCEPT ![id] = Notify(@)]
           /\ signalled' = [signalled EXCEPT ![id] = @ + 1]
    /\ cursor' = cursor + 1
    /\ pc' = "start_all"
    /\ UNCHANGED <<to_check, other, runs, builderVars, systemVars, scheduleVars,
                   world_generation, system_containers, archetype_access,
                   last_archetypes_generation, queued, dependants_scratch,
                   channel, task, enqueued, executed, processed, batch,
                   updated>>

\* start_all_runnable_queued_systems after the last queued id: retain.
EndStartAll ==
    /\ pc = "start_all"
    /\ cursor > Len(queued)
    /\ queued' = Retain(queued, running)
    /\ cursor' = 0
    /\ pc' = "recv"
    /\ UNCHANGED <<to_check, other, runs, builderVars, systemVars, scheduleVars,
                   world_generation, system_containers, archetype_access,
                   last_archetypes_generation, running, dependants_scratch,
                   channel, taskVars, histVars>>

\* Mutation of ProcessFinished: the finished id is left in running.
ProcessFinishedStillRunning ==
    LET id == Head(channel)
    IN  /\ channel' = Tail(channel)
        /\ running' = running
        /\ dependants_scratch' =
               dependants_scratch \o system_containers[id].dependants
        /\ processed' = processed \cup {id}
        /\ batch' = batch + 1

\* process_finished_system on the id at the head of the channel.
ProcessFinished ==
    LET id == Head(channel)
    IN  /\ channel' = Tail(channel)
        /\ running' = running \ {id}
        /\ dependants_scratch' =
               dependants_scratch \o system_containers[id].dependants
        /\ processed' = processed \cup {id}
        /\ batch' = batch + 1

\* self.receiver.recv().await: waits for a finished id.
Recv ==
    /\ pc = "recv"
    /\ channel # <<>>
    /\ ProcessFinished
    /\ pc' = "try_recv"
    /\ UNCHANGED <<cursor, to_check, other, runs, builderVars, systemVars, scheduleVars,
                   world_generation, system_containers, archetype_access,
                   last_archetypes_generation, queued, taskVars, enqueued,
                   signalled, executed, updated>>

\* while let Ok(finished) = self.receiver.try_recv()
TryRecv ==
    /\ pc = "try_recv"
    /\ channel # <<>>
    /\ ProcessFinished
    /\ UNCHANGED <<pc, cursor, to_check, other, runs, builderVars, systemVars, scheduleVars,
                   world_generation, system_containers, archetype_access,
                   last_archetypes_generation, queued, taskVars, enqueued,
                   signalled, executed, updated>>

\* try_recv found the channel empty: update_counters_and_queue_systems.
UpdateCountersAndQueue ==
    /\ pc = "try_recv"
    /\ channel = <<>>
    /\ LET after == UpdateCounters(system_containers, queued,
                                   [s \in Systems |-> 0], dependants_scratch)
       IN  /\ system_containers' = after.containers
           /\ queued' = after.queued
           /\ enqueued' = [s \in Systems |-> enqueued[s] + after.pushes[s]]
    /\ dependants_scratch' = <<>>
    /\ pc' = "loop"
    /\ UNCHANGED <<cursor, to_check, other, runs, builderVars, systemVars, scheduleVars,
                   world_generation, archetype_access,
                   last_archetypes_generation, running, channel, taskVars,
                   signalled, executed, processed, batch, updated>>

\* A system's task past listener.await: try_lock of its system, which is
\* unreachable!() when the lock is held, and the start of the system's run.
Wake(id) ==
    /\ task[id] = "listening"
    /\ notifier[id] = "notified"
    /\ notifier' = [notifier EXCEPT ![id] = "none"]
    /\ IF lock[id] = "free"
       THEN /\ lock' = [lock EXCEPT ![id] = "task"]
            /\ task' = [task EXCEPT ![id] = "running"]
            /\ executed' = [executed EXCEPT ![id] = @ + 1]
       ELSE /\ task' = [task EXCEPT ![id] = "panic: unreachable"]
            /\ UNCHANGED <<lock, executed>>
    /\ UNCHANGED <<orchVars, builderVars, systemVars, scheduleVars, world_generation,
                   schedVars, enqueued, signalled, processed, batch, updated>>

\* Mutation of Finish: the id is sent twice.
FinishSendsTwice(id) ==
    /\ task[id] = "running"
    /\ lock' = [lock EXCEPT ![id] = "free"]
    /\ channel' = channel \o <<id, id>>
    /\ task' = [task EXCEPT ![id] = "done"]
    /\ UNCHANGED <<orchVars, builderVars, systemVars, scheduleVars, world_generation,
                   system_containers, archetype_access,
                   last_archetypes_generation, queued, running,
                   dependants_scratch, notifier, histVars>>

\* The system's run returns: the guard is dropped and the id is sent.
Finish(id) ==
    /\ task[id] = "running"
    /\ lock' = [lock EXCEPT ![id] = "free"]
    /\ channel' = Append(channel, id)
    /\ task' = [task EXCEPT ![id] = "done"]
    /\ UNCHANGED <<orchVars, builderVars, systemVars, scheduleVars, world_generation,
                   system_containers, archetype_access,
                   last_archetypes_generation, queued, running,
                   dependants_scratch, notifier, histVars>>

\* Mutation of Return: run_systems returns when the scheduling task is done,
\* without the scope waiting for the systems' tasks.
ReturnWithoutJoin ==
    /\ pc = "join"
    /\ pc' = "idle"
    /\ runs' = runs + 1
    /\ task' = [s \in Systems |-> "none"]
    /\ UNCHANGED <<cursor, to_check, other, builderVars, systemVars, scheduleVars,
                   world_generation, schedVars, notifier, lock, histVars>>

\* The scope ends once the scheduling task and every system's task have
\* completed; run_systems checks its exit assertions and returns.
Return ==
    /\ pc = "join"
    /\ \A id \in Ids : task[id] = "done"
    /\ IF queued = <<>> /\ running = {} /\ dependants_scratch = <<>>
       THEN pc' = "idle" /\ runs' = runs + 1
       ELSE pc' = "panic: debug_assert" /\ UNCHANGED runs
    /\ task' = [s \in Systems |-> "none"]
    /\ UNCHANGED <<cursor, to_check, other, builderVars, systemVars, scheduleVars,
                   world_generation, schedVars, notifier, lock, histVars>>

\* Between two runs the world gains an archetype.
ChangeWorld ==
    /\ pc = "idle"
    /\ build = "built"
    /\ runs >= 1
    /\ world_generation < MaxGen
    /\ world_generation' = world_generation + 1
    /\ UNCHANGED <<builderVars, systemVars, scheduleVars, schedVars, taskVars, orchVars,
                   histVars>>

Next ==
    \/ RunSystems
    \/ LoopCheck
    \/ CanStartNow
    \/ LockOther
    \/ Compare
    \/ Start
    \/ EndStartAll
    \/ Recv
    \/ TryRecv
    \/ UpdateCountersAndQueue
    \/ \E id \in Systems : Wake(id)
    \/ \E id \in Systems : Finish(id)
    \/ Return
    \/ ChangeWorld

Spec == Init /\ [][Next]_vars

\* A system's run panics: the guard is dropped by the unwinding and nothing
\* is sent on the channel.
Fail(id) ==
    /\ task[id] = "running"
    /\ lock' = [lock EXCEPT ![id] = "free"]
    /\ task' = [task EXCEPT ![id] = "panic: system"]
    /\ UNCHANGED <<orchVars, builderVars, systemVars, scheduleVars, world_generation,
                   schedVars, notifier, histVars>>

NextWithFailures == Next \/ \E id \in Systems : Fail(id)

\* The scheduler with systems whose run may panic.
SpecWithFailures == Init /\ [][NextWithFailures]_vars

\* Systems that all report different names, and systems 1 and 2 reporting
\* the same name (the same function boxed twice).
SharedNames == (1 :> "s1") @@ (2 :> "s1") @@ (3 :> "s3")
NameAssignments == {DistinctNames, SharedNames}

\* UnorderedScheduler::new()
BuildInit ==
    /\ sys_name \in NameAssignments
    /\ sys_kind = [s \in Systems |-> [res |-> "R", arch |-> "R"]]
    /\ world_generation = 1
    /\ builder_containers = EmptyMap
    /\ last_added = None
    /\ moved = {}
    /\ discarded = 0
    /\ build = "building"
    /\ declared = EmptyMap
    /\ system_containers = EmptyMap
    /\ FreshScheduler
    /\ NewSchedule

BuildNext ==
    \/ \E system \in Systems : AddSystem(system)
    \/ \E name \in Names, system \in Systems : AddNamedSystem(name, system)
    \/ \E name \in Names : DependsOn(name)
    \/ Finalize

\* The builder, from new() to into_system.
BuildSpec == BuildInit /\ [][BuildNext]_vars

(* ---------------------- Schedule (src/schedule.rs) -------------------- *)

\* Number of stages boxed and handed to one schedule.
MaxStages == 4

\* Stage labels: values of two label types, equal (dyn_eq) when the type and
\* the value are the same.
Labels ==
    { [type |-> "StructLabel", value |-> 0],
      [type |-> "StructLabel", value |-> 1],
      [type |-> "EnumLabel", value |-> 0],
      [type |-> "EnumLabel", value |-> 1] }

\* The n-th stage boxed is stage n; stages are of two types, which
\* remove::<S> downcasts to.
StageTypes == {"PrintyStage", "OtherStage"}
StageType(stage) == IF stage % 2 = 1 THEN "PrintyStage" ELSE "OtherStage"

\* Everything that is not part of the schedule.
schedulerVars ==
    <<builderVars, systemVars, world_generation, schedVars, taskVars,
      orchVars, histVars>>

\* Vec::insert and Vec::remove at a position counted from 0.
VecInsert(v, index, x) ==
    SubSeq(v, 1, index) \o <<x>> \o SubSeq(v, index + 1, Len(v))
VecRemove(v, index) == SubSeq(v, 1, index) \o SubSeq(v, index + 2, Len(v))

\* An Option: the empty set for None, the set of the value for Some.
Unwrap(option) == CHOOSE x \in option : TRUE

\* stage_index: the index the table holds for the label, if any.
StageIndex(table, label) ==
    IF label \in DOMAIN table THEN {table[label]} ELSE {}

\* Mutation of InsertStage: the index at the insertion position stays.
InsertStageShiftsAbove(ss, table, stage_index, stage) ==
    [stages |-> VecInsert(ss, stage_index, stage),
     index_table |-> [l \in DOMAIN table |->
         IF table[l] > stage_index THEN table[l] + 1 ELSE table[l]]]

\* insert_stage: the stage is inserted and every index at or above the
\* position is incremented.
InsertStage(ss, table, stage_index, stage) ==
    [stages |-> VecInsert(ss, stage_index, stage),
     index_table |-> [l \in DOMAIN table |->
         IF table[l] >= stage_index THEN table[l] + 1 ELSE table[l]]]

\* Mutation of RemoveStage: the indices above the position stay.
RemoveStageKeepsIndices(ss, table, stage_index) ==
    [stage |-> ss[stage_index + 1],
     stages |-> VecRemove(ss, stage_index),
     index_table |-> table]

\* remove_stage: the stage is removed and every index above the position
\* is decremented.
RemoveStage(ss, table, stage_index) ==
    [stage |-> ss[stage_index + 1],
     stages |-> VecRemove(ss, stage_index),
     index_table |-> [l \in DOMAIN table |->
         IF table[l] > stage_index THEN table[l] - 1 ELSE table[l]]]

\* insert_label past its assertion, and remove_label.
InsertLabel(table, stage_index, label) == MapInsert(table, label, stage_index)
RemoveLabel(table, label) == [l \in DOMAIN table \ {label} |-> table[l]]

\* run: the stages in the order of the vector, each run once.
RECURSIVE RunStages(_)
RunStages(ss) ==
    IF ss = <<>> THEN <<>> ELSE <<Head(ss)>> \o RunStages(Tail(ss))

\* add(label, stage): insert_label asserts that the label is new, then the
\* stage is pushed.
Add(label) ==
    /\ schedule_state = "ok"
    /\ boxed < MaxStages
    /\ boxed' = boxed + 1
    /\ call' = [op |-> "add", label |-> label, stage |-> boxed + 1]
    /\ IF label \in DOMAIN index_table
       THEN /\ schedule_state' = "panic: assert"
            /\ UNCHANGED <<stages, index_table>>
       ELSE /\ index_table' = InsertLabel(index_table, Len(stages), label)
            /\ stages' = Append(stages, boxed + 1)
            /\ UNCHANGED schedule_state
    /\ UNCHANGED schedulerVars

\* The body shared by add_before and add_after once the position is known:
\* insert_stage, then insert_label, whose assertion comes after the stage
\* was inserted.
InsertAt(index, label, stage) ==
    IF index > Len(stages)
    THEN /\ schedule_state' = "panic: insertion index"
         /\ UNCHANGED <<stages, index_table>>
    ELSE LET inserted == InsertStage(stages, index_table, index, stage)
         IN  /\ stages' = inserted.stages
             /\ IF label \in DOMAIN inserted.index_table
                THEN /\ index_table' = inserted.index_table
                     /\ schedule_state' = "panic: assert"
                ELSE /\ index_table' =
                            InsertLabel(inserted.index_table, index, label)
                     /\ UNCHANGED schedule_state

\* add_before(target_label, label, stage)
AddBefore(target_label, label) ==
    /\ schedule_state = "ok"
    /\ boxed < MaxStages
    /\ boxed' = boxed + 1
    /\ call' = [op |-> "add_before", target_label |-> target_label,
                label |-> label, stage |-> boxed + 1]
    /\ IF StageIndex(index_table, target_label) = {}
       THEN /\ schedule_state' = "panic: unwrap"
            /\ UNCHANGED <<stages, index_table>>
       ELSE InsertAt(Unwrap(StageIndex(index_table, target_label)), label,
                     boxed + 1)
    /\ UNCHANGED schedulerVars

\* add_after(target_label, label, stage)
AddAfter(target_label, label) ==
    /\ schedule_state = "ok"
    /\ boxed < MaxStages
    /\ boxed' = boxed + 1
    /\ call' = [op |-> "add_after", target_label |-> target_label,
                label |-> label, stage |-> boxed + 1]
    /\ IF StageIndex(index_table, target_label) = {}
       THEN /\ schedule_state' = "panic: unwrap"
            /\ UNCHANGED <<stages, index_table>>
       ELSE InsertAt(Unwrap(StageIndex(index_table, target_label)) + 1,
                     label, boxed + 1)
    /\ UNCHANGED schedulerVars

\* remove::<S>(label): None for a label the table does not hold; otherwise
\* the label is removed, then the stage, and the stage is downcast to S.
Remove(S, label) ==
    /\ schedule_state = "ok"
    /\ IF StageIndex(index_table, label) = {}
       THEN /\ call' = [op |-> "remove", label |-> label, result |-> {}]
            /\ UNCHANGED <<stages, index_table, schedule_state>>
       ELSE LET index == Unwrap(StageIndex(index_table, label))
            IN  IF index >= Len(stages)
                THEN /\ index_table' = RemoveLabel(index_table, label)
                     /\ schedule_state' = "panic: removal index"
                     /\ call' = [op |-> "remove", label |-> label,
                                 result |-> {}]
                     /\ UNCHANGED stages
                ELSE LET removed ==
                             RemoveStage(stages,
                                         RemoveLabel(index_table, label),
                                         index)
                     IN  /\ stages' = removed.stages
                         /\ index_table' = removed.index_table
                         /\ IF StageType(removed.stage) = S
                            THEN /\ call' = [op |-> "remove",
                                             label |-> label,
                                             result |-> {removed.stage}]
                                 /\ UNCHANGED schedule_state
                            ELSE /\ call' = [op |-> "remove",
                                             label |-> label,
                                             result |-> {}]
                                 /\ schedule_state' = "panic: unwrap"
    /\ UNCHANGED <<boxed, schedulerVars>>

\* run(world, resources)
Run ==
    /\ schedule_state = "ok"
    /\ call' = [op |-> "run", result |-> RunStages(stages)]
    /\ UNCHANGED <<stages, index_table, schedule_state, boxed, schedulerVars>>

\* A new schedule next to a builder that is not used.
ScheduleInit == BuildInit /\ sys_name = DistinctNames

ScheduleNext ==
    \/ \E label \in Labels : Add(label)
    \/ \E target_label \in Labels, label \in Labels :
         AddBefore(target_label, label)
    \/ \E target_label \in Labels, label \in Labels :
         AddAfter(target_label, label)
    \/ \E S \in StageTypes, label \in Labels : Remove(S, label)
    \/ Run

\* The calls on one schedule, from new() on.
ScheduleSpec == ScheduleInit /\ [][ScheduleNext]_vars

(* ------------------- the declared dependency relation ----------------- *)

\* The name a system was registered under, the system registered under a
\* name and the dependencies declared for a system, as the builder held them
\* when into_system was called.
RegisteredName(id) == CHOOSE n \in DOMAIN declared : declared[n].system = id
Registered(name) == declared[name].system
Dependencies(id) == declared[RegisteredName(id)].dependencies
DependsOnSystems(id) ==
    {Registered(n) : n \in Range(Dependencies(id)) \cap DOMAIN declared}

RECURSIVE Closure(_)
Closure(R) ==
    LET next == R \cup {<<ef[1][1], ef[2][2]>> :
                            ef \in {x \in R \X R : x[1][2] = x[2][1]}}
    IN  IF next = R THEN R ELSE Closure(next)

\* <<b, a>>: system b declared a dependency on the name of system a.
DependencyPairs == {p \in Ids \X Ids : p[2] \in DependsOnSystems(p[1])}

HasCycle == \E id \in Ids : <<id, id>> \in Closure(DependencyPairs)

(* ------------------------------ claims -------------------------------- *)

\* C1. Dependency ordering: a system that declared dependencies is not
\* queued, not in running and not signalled in a run before the scheduling
\* task has processed the completion of every one of them in that run (and
\* so removed it from running).
C1_DependencyOrdering ==
    \A b \in Ids : \A a \in DependsOnSystems(b) :
        (enqueued[b] > 0 \/ signalled[b] > 0 \/ executed[b] > 0
            \/ b \in running \/ b \in Range(queued))
        => (a \in processed /\ a \notin running)

\* A system with two different dependencies is signalled in the second run.
C1_Witness ==
    \E b \in Ids :
        /\ Cardinality(DependsOnSystems(b)) = 2
        /\ runs = 1
        /\ signalled[b] = 1

\* C2. Conflict exclusion: any two different systems in running, and any two
\* systems whose run is executing, have compatible resource access and
\* compatible archetype access, the cached one and the one the world gives.
C2_ConflictExclusion ==
    /\ \A a \in Ids : task[a] = "running" => a \in running
    /\ \A a \in running, b \in running :
         a # b =>
           /\ IsCompatible(ResourceAccess(sys_kind[a]),
                           ResourceAccess(sys_kind[b]))
           /\ IsCompatible(archetype_access[a], archetype_access[b])
           /\ IsCompatible(
                  ComputeArchetypeAccess(sys_kind[a], world_generation),
                  ComputeArchetypeAccess(sys_kind[b], world_generation))

\* Two systems execute at once while a third, which became ready in the same
\* pass and conflicts with one of them, was left in the queue.
C2_Witness ==
    \E a \in Ids, b \in Ids, c \in Ids :
        /\ a # b
        /\ task[a] = "running" /\ task[b] = "running"
        /\ pc = "recv"
        /\ queued = <<c>>
        /\ enqueued[a] = 1 /\ enqueued[b] = 1 /\ enqueued[c] = 1
        /\ processed = {}
        /\ ~IsCompatible(archetype_access[a], archetype_access[c])

\* C4. Exactly-once lifecycle: in one run a system is pushed onto queued at
\* most once, signalled at most once and executed at most once, in that
\* order; it sits in queued once; a system without dependencies is queued
\* by prepare and one with dependencies is not queued before a completion
\* was processed.
C4_ExactlyOnceLifecycle ==
    \A id \in Ids :
        /\ enqueued[id] <= 1 /\ signalled[id] <= 1 /\ executed[id] <= 1
        /\ signalled[id] <= enqueued[id]
        /\ executed[id] <= signalled[id]
        /\ id \in processed => executed[id] = 1
        /\ id \in running => signalled[id] = 1 /\ id \notin processed
        /\ CountIn(id, queued) <= 1
        /\ id \in Range(queued) => enqueued[id] = 1
        /\ system_containers[id].deps_now > 0 => enqueued[id] = 0
        /\ (system_containers[id].deps_total = 0 /\ pc # "idle")
               => enqueued[id] = 1
        /\ (system_containers[id].deps_total > 0 /\ processed = {})
               => enqueued[id] = 0

\* All three systems went through the whole lifecycle, one of them blocked
\* at the start of the run.
C4_Witness ==
    /\ pc = "join"
    /\ processed = Ids
    /\ \A id \in Ids : executed[id] = 1
    /\ \E id \in Ids : system_containers[id].deps_total = 2

\* C5. Idempotent re-run: every run that returns has executed and processed
\* every system; between runs the scheduler holds nothing of the last run
\* (counters 0, queued, running, scratch and channel empty, no notification
\* pending, no lock held); right after prepare every deps_now is deps_total.
C5_IdempotentRerun ==
    /\ (pc = "idle" /\ runs >= 1) =>
          /\ processed = Ids
          /\ \A id \in Ids : executed[id] = 1
    /\ pc = "idle" =>
          /\ queued = <<>> /\ running = {} /\ dependants_scratch = <<>>
          /\ channel = <<>>
          /\ \A id \in Ids :
               /\ system_containers[id].deps_now = 0
               /\ notifier[id] = "none"
               /\ lock[id] = "free"
               /\ task[id] = "none"
    /\ (pc = "loop" /\ batch = 0 /\ processed = {}) =>
          \A id \in Ids :
              system_containers[id].deps_now = system_containers[id].deps_total

\* The second run of a scheduler with dependencies has just been prepared.
C5_Witness ==
    /\ runs = 1
    /\ pc = "loop" /\ batch = 0 /\ processed = {}
    /\ \E id \in Ids : system_containers[id].deps_now = 2

\* C6. No partial mode: when run_systems has returned, every system was
\* executed exactly once in that run; with a dependency cycle among the
\* systems (a system depending on itself included) no run ever returns or
\* fails an assertion of run_systems.
C6_NoPartialMode ==
    /\ (pc = "idle" /\ runs >= 1) => \A id \in Ids : executed[id] = 1
    /\ (runs >= 1 \/ pc = "panic: debug_assert") => ~HasCycle

\* A cycle between two systems: the third was executed, the scheduling task
\* has left its loop and the two systems of the cycle still listen.
C6_Witness ==
    /\ HasCycle
    /\ pc = "join"
    /\ \E a \in Ids, b \in Ids, c \in Ids :
         /\ a # b
         /\ task[a] = "listening" /\ task[b] = "listening"
         /\ executed[c] = 1 /\ task[c] = "done"

\* C3. Completeness: on an acyclic graph a run never comes to a stop before
\* it returns (so that, with fair scheduling, it returns), and when it has
\* returned every system was processed and queued and running are empty.
C3_Completeness ==
    ~HasCycle =>
        /\ pc = "idle" \/ ENABLED Next
        /\ (pc = "idle" /\ runs >= 1) =>
               (processed = Ids /\ queued = <<>> /\ running = {})

\* C7. Unknown dependency: into_system on a builder with a dependency on a
\* name that was never registered fails with an UnknownDependency error
\* and builds no scheduler.
C7_UnknownDependency ==
    (/\ build # "building"
     /\ \E n \in DOMAIN declared :
          \E d \in Range(declared[n].dependencies) : d \notin DOMAIN declared)
    => (build = "Err(UnknownDependency)" /\ system_containers = EmptyMap)

\* C8. Dependency resolution by registered name: when the registered systems
\* report different names of their own and every declared dependency names
\* a registered system, into_system builds a scheduler
\* that holds every registered system, in which the system registered as b
\* occurs in the dependants of the system registered as a as often as b
\* declared a dependency on a, and deps_total of b is the number of
\* dependencies b declared.
C8_DependantsInverse ==
    (/\ DOMAIN declared # {}
     /\ \A a \in DOMAIN declared, b \in DOMAIN declared :
          a # b => sys_name[Registered(a)] # sys_name[Registered(b)]
     /\ \A n \in DOMAIN declared :
          Range(declared[n].dependencies) \subseteq DOMAIN declared)
    => /\ build = "built"
       /\ \A n \in DOMAIN declared : Registered(n) \in Ids
       /\ \A a \in DOMAIN declared, b \in DOMAIN declared :
            CountIn(Registered(b), system_containers[Registered(a)].dependants)
                = CountIn(a, declared[b].dependencies)
       /\ \A b \in DOMAIN declared :
            system_containers[Registered(b)].deps_total
                = Len(declared[b].dependencies)

\* C9. Spawning is not starting: no system is executed before its notifier
\* was notified in the current run, and a system that was notified is about
\* to wake, executing or finished: its notification is not lost and its
\* task does not end without executing it.
C9_SpawningIsNotStarting ==
    \A id \in Ids :
        /\ executed[id] > 0 => signalled[id] > 0
        /\ task[id] = "running" => signalled[id] > 0
        /\ (signalled[id] > 0 /\ pc # "idle") =>
              \/ task[id] = "listening" /\ notifier[id] = "notified"
              \/ task[id] = "running"
              \/ task[id] = "done"

\* The scheduling task waits for a completion that cannot arrive: the
\* channel is empty and no system's task is executing or about to wake.
WaitsForever ==
    /\ pc = "recv"
    /\ channel = <<>>
    /\ \A id \in Ids :
         /\ task[id] # "running"
         /\ ~(task[id] = "listening" /\ notifier[id] = "notified")

\* C10. Task failure aborts the run: after a system's run has failed, the
\* scheduling task is not left waiting for the completion of that system.
C10_TaskFailureAborts ==
    ~(WaitsForever /\ \E id \in running : task[id] = "panic: system")

\* C11. Task lock is never contended at start: a system's task that wakes on
\* its notification finds the system's lock free (try_lock succeeds, the
\* unreachable!() branch is not taken), the scheduling task does not hold
\* the lock of a notified system whose task has yet to take it, and a
\* system is executing only while its own task holds its lock.
C11_LockNeverContended ==
    \A id \in Ids :
        /\ task[id] # "panic: unreachable"
        /\ (task[id] = "listening" /\ notifier[id] = "notified")
               => lock[id] # "scheduler"
        /\ task[id] = "running" <=> lock[id] = "task"

\* The scheduling task is inside start_all_runnable_queued_systems, between
\* the first can_start_now and the retain.
InPass == pc \in {"start_all", "can_start_now", "compare"}

\* What running held when the i-th queued id was visited: the ids admitted
\* at or after position i taken out of what it holds now.
RunningWhenVisited(i) == running \ {queued[j] : j \in i..Len(queued)}

\* The two accesses of one system against those of another, as the systems
\* report them.
Compatible(a, b) ==
    /\ IsCompatible(ResourceAccess(sys_kind[a]), ResourceAccess(sys_kind[b]))
    /\ IsCompatible(archetype_access[a], archetype_access[b])

\* The state part of C12: in a pass the ids before the cursor were visited
\* and the others were not; a visited id is in running if and only if it is
\* compatible with everything running held when it was visited; an admitted
\* id was notified once and its notification is pending until its task
\* wakes; a rejected or unvisited id was not notified; outside a pass no
\* queued id is in running.
AdmissionPass ==
    /\ InPass =>
         /\ cursor \in 1..(Len(queued) + 1)
         /\ \A i \in 1..Len(queued) :
              LET id == queued[i]
              IN  /\ i < cursor =>
                       (id \in running <=>
                           \A r \in RunningWhenVisited(i) : Compatible(id, r))
                  /\ i >= cursor => id \notin running
                  /\ signalled[id] = IF id \in running THEN 1 ELSE 0
                  /\ (id \in running /\ task[id] = "listening")
                         => notifier[id] = "notified"
                  /\ id \notin running => notifier[id] = "listening"
    /\ ~InPass => \A id \in Range(queued) : id \notin running

\* The step part of C12: the pass moves its cursor one id at a time, changes
\* neither the queue nor (but for the admitted id) running before its end,
\* and ends by leaving in the queue the ids it did not admit, in the order
\* they had.
AdmissionStep ==
    /\ (InPass /\ InPass') =>
          /\ queued' = queued
          /\ cursor' \in {cursor, cursor + 1}
          /\ running' # running =>
                 (cursor <= Len(queued) /\ cursor' = cursor + 1
                    /\ running' = running \cup {queued[cursor]})
    /\ (InPass /\ ~InPass') =>
          /\ cursor = Len(queued) + 1
          /\ running' = running
          /\ queued' = SelectSeq(queued, LAMBDA id : id \notin running)

\* C12. Admission pass: one call of start_all_runnable_queued_systems visits
\* the queued ids in queue order and admits an id if and only if its access
\* is compatible with every id in running when it is visited; an admitted id
\* is inserted into running, notified exactly once and removed from queued
\* at the end of the pass; the others stay queued in their order.
C12_AdmissionPass == [](AdmissionPass) /\ [][AdmissionStep]_vars

\* A pass over three queued systems has admitted the first, rejected the
\* second, which conflicts with the first, and admitted the third.
C12_Witness ==
    /\ pc = "start_all"
    /\ cursor = 4
    /\ Len(queued) = 3
    /\ queued[1] \in running
    /\ queued[2] \notin running
    /\ queued[3] \in running
    /\ ~Compatible(queued[2], queued[1])

\* How often system b occurs in the dependants of the systems of `done`.
RECURSIVE FinishedEdges(_, _)
FinishedEdges(b, done) ==
    IF done = {} THEN 0
    ELSE LET a == CHOOSE a \in done : TRUE
         IN  CountIn(b, system_containers[a].dependants)
                 + FinishedEdges(b, done \ {a})

\* C13. Dependency counter invariant: in a run every deps_now is within
\* 0..deps_total (the decrement is never applied to a counter that is 0) and
\* is deps_total less one for every occurrence of the system in the
\* dependants of a processed system whose scratch entry was consumed; a
\* system was pushed onto queued once if its counter is 0 and never
\* otherwise. A system that declared the same dependency twice is included.
C13_DependencyCounter ==
    pc # "idle" =>
        \A b \in Ids :
            LET container == system_containers[b]
            IN  /\ container.deps_now \in 0..container.deps_total
                /\ container.deps_now =
                       container.deps_total - FinishedEdges(b, processed)
                           + CountIn(b, dependants_scratch)
                /\ enqueued[b] = IF container.deps_now = 0 THEN 1 ELSE 0

\* A system that declared the same dependency twice was queued after the
\* completion of that dependency took its counter from 2 to 0.
C13_Witness ==
    \E a \in Ids, b \in Ids :
        /\ CountIn(b, system_containers[a].dependants) = 2
        /\ processed = {a}
        /\ dependants_scratch = <<>>
        /\ system_containers[b].deps_total = 2
        /\ system_containers[b].deps_now = 0
        /\ b \in Range(queued)

\* C14. Run-boundary assertions: no debug_assert of run_systems or prepare
\* fails on an acyclic graph, in the first run or a later one; whenever
\* run_systems is about to be called or has returned, queued, running and
\* dependants_scratch are empty and every deps_now is 0.
C14_RunBoundaryAssertions ==
    /\ pc = "panic: debug_assert" => HasCycle
    /\ pc = "idle" =>
          /\ queued = <<>>
          /\ running = {}
          /\ dependants_scratch = <<>>
          /\ \A id \in Ids : system_containers[id].deps_now = 0

\* The second run of a scheduler with a chain of two dependencies has passed
\* its exit assertions and returned.
C14_Witness ==
    /\ pc = "idle"
    /\ runs = 2
    /\ \E a \in Ids, b \in Ids, c \in Ids :
         /\ system_containers[a].dependants = <<b>>
         /\ system_containers[b].dependants = <<c>>
         /\ system_containers[c].dependants = <<>>

\* The state part of C15: the counters are updated only after at least one
\* completion was processed in the iteration; a processed system is not in
\* running; when the scheduling task is not between a recv and the update
\* of the counters, no dependant waits in the scratch vector and every
\* system whose dependencies were all processed has been queued or started.
BatchProcessed ==
    /\ pc = "try_recv" => batch >= 1
    /\ \A id \in processed : id \notin running
    /\ (pc = "loop" \/ InPass \/ pc = "recv") =>
          /\ dependants_scratch = <<>>
          /\ \A id \in Ids :
               (DependsOnSystems(id) \subseteq processed /\ signalled[id] = 0)
                   => id \in Range(queued)

\* The step part of C15: a completion is taken from the channel by removing
\* its system from running, and the scheduling task leaves the draining
\* for the next test of the loop only with the channel empty and the
\* scratch vector consumed.
BatchStep ==
    /\ Len(channel') < Len(channel) =>
          /\ pc \in {"recv", "try_recv"} /\ pc' = "try_recv"
          /\ channel' = Tail(channel)
          /\ running' = running \ {Head(channel)}
          /\ batch' = batch + 1
    /\ (pc = "try_recv" /\ pc' # "try_recv") =>
          /\ channel = <<>>
          /\ pc' = "loop"
          /\ dependants_scratch' = <<>>
          /\ running' = running

\* C15. Batch completion processing: every iteration of the loop processes
\* at least one completion, drains the channel until it is empty, removing
\* each finished system from running, and updates the counters of all their
\* dependants before the next pass, in which a system released by the batch
\* is in the queue and the finished systems block nothing.
C15_BatchCompletion == [](BatchProcessed) /\ [][BatchStep]_vars

\* Two completions were processed in one iteration and released a system
\* that depends on both, which is queued for the pass about to start.
C15_Witness ==
    /\ pc = "loop"
    /\ batch = 2
    /\ \E c \in Ids :
         /\ Cardinality(DependsOnSystems(c)) = 2
         /\ DependsOnSystems(c) = processed
         /\ queued = <<c>>
         /\ running = {}

\* C16. Generation caching: prepare calls update_archetype_access on every
\* system when the generation it finds cached is not the world's and on no
\* system when it is; after prepare the cached generation is the world's and
\* the cached access is the access the world gives; the first run after
\* into_system updates every system, and a run on a world that has the
\* generation of the previous run updates none.
C16_GenerationCaching ==
    /\ pc # "idle" =>
          /\ updated.ids =
                 IF updated.before # world_generation THEN Ids ELSE {}
          /\ last_archetypes_generation = world_generation
          /\ \A id \in Ids :
               archetype_access[id] =
                   ComputeArchetypeAccess(sys_kind[id], world_generation)
          /\ runs = 0 => updated.ids = Ids
    /\ (pc = "idle" /\ runs >= 1) =>
          /\ last_archetypes_generation \in 1..world_generation
          /\ updated.before # last_archetypes_generation => updated.ids = Ids

\* The second run finds the world at the generation the first run cached
\* and has prepared without updating any system's access.
C16_Witness ==
    /\ runs = 1
    /\ pc = "loop"
    /\ updated.before = world_generation
    /\ updated.ids = {}
    /\ Ids # {}

\* The state part of C17: no insertion ends in an error; a builder that has
\* taken a system holds the name of the last insertion and an entry under
\* it, and no system sits in two entries.
OneEntryPerName ==
    /\ build # "Err(DuplicateName)"
    /\ build = "building" =>
          /\ last_added = None <=> moved = {}
          /\ last_added # None => last_added \in DOMAIN builder_containers
          /\ \A a \in DOMAIN builder_containers :
               /\ builder_containers[a].system \in moved
               /\ \A b \in DOMAIN builder_containers :
                    builder_containers[a].system = builder_containers[b].system
                        => a = b

\* The step part of C17. An insertion of `system` under `name` is no error
\* and leaves under `name` the one entry that holds `system` and no
\* dependency, whatever was there before, with the other entries as they
\* were. A depends_on that follows is pushed onto the entry of the last
\* insertion and changes no other entry.
ReplacementStep ==
    /\ moved' # moved =>
          \E system \in moved' \ moved :
              LET name == last_added'
              IN  /\ moved' = moved \cup {system}
                  /\ build' = "building"
                  /\ DOMAIN builder_containers' =
                         DOMAIN builder_containers \cup {name}
                  /\ builder_containers'[name] =
                         [system |-> system, dependencies |-> <<>>]
                  /\ \A n \in DOMAIN builder_containers :
                         n # name =>
                             builder_containers'[n] = builder_containers[n]
    /\ (moved' = moved /\ build' = "building") =>
          /\ last_added' = last_added
          /\ DOMAIN builder_containers' = DOMAIN builder_containers
          /\ \E dependency_name \in Names :
               builder_containers'[last_added] =
                   [system |-> builder_containers[last_added].system,
                    dependencies |->
                        Append(builder_containers[last_added].dependencies,
                               dependency_name)]
          /\ \A n \in DOMAIN builder_containers :
               n # last_added =>
                   builder_containers'[n] = builder_containers[n]

\* C17. Duplicate name policy: inserting a system under a name that is
\* already taken is no error and replaces the entry: the builder holds one
\* entry for that name, it holds the later system, the dependencies declared
\* for the earlier insertion are gone, and the depends_on calls that follow
\* apply to the replacement.
C17_DuplicateNamePolicy == [](OneEntryPerName) /\ [][ReplacementStep]_vars

\* Two systems were inserted under one name, the first with a dependency:
\* the builder holds the second system alone, with the dependency declared
\* after its insertion, and the first one's dependency was dropped.
C17_Witness ==
    /\ build = "building"
    /\ Cardinality(moved) = 2
    /\ discarded = 1
    /\ \E name \in Names, dependency_name \in Names :
         /\ DOMAIN builder_containers = {name}
         /\ builder_containers[name].dependencies = <<dependency_name>>

\* C18. No wait on an empty running set: when the scheduling task waits in
\* receiver.recv(), running holds a system that was notified and whose
\* completion was not processed; a pass that has visited the first queued
\* id has a system in running, so a pass that started with running empty
\* and queued non-empty admitted at least its first id.
C18_NoWaitWithoutRunning ==
    /\ pc = "recv" =>
          \E id \in running : signalled[id] = 1 /\ id \notin processed
    /\ (InPass /\ cursor >= 2) => running # {}

\* The first pass of a run found three systems queued and nothing running:
\* it admitted the first, rejected the two others, and the scheduling task
\* waits for the completion of the admitted one.
C18_Witness ==
    /\ pc = "recv"
    /\ channel = <<>>
    /\ processed = {}
    /\ Cardinality(running) = 1
    /\ Len(queued) = 2

\* C19. Completion channel consistency: an id on the channel is the id of a
\* system in running whose run was executed and has returned and whose
\* completion was not processed; in a run a system's id was sent once if
\* its task is done, and then it is on the channel once or was processed,
\* and was not sent otherwise; between runs the channel is empty, and in a
\* run that has returned every system's id was received.
C19_ChannelConsistency ==
    /\ \A id \in Range(channel) :
         /\ id \in running
         /\ executed[id] = 1
         /\ task[id] = "done"
    /\ pc # "idle" =>
          \A id \in Ids :
              CountIn(id, channel) + (IF id \in processed THEN 1 ELSE 0)
                  = IF task[id] = "done" THEN 1 ELSE 0
    /\ pc = "idle" => channel = <<>>
    /\ (pc = "idle" /\ runs >= 1) => processed = Ids

\* Two systems have finished while the scheduling task was waiting: both
\* ids are on the channel and both systems are still in running.
C19_Witness ==
    /\ pc = "recv"
    /\ Len(channel) = 2
    /\ channel[1] # channel[2]
    /\ {channel[1], channel[2]} \subseteq running

\* C20. No system is lost at finalization: the scheduler that into_system
\* builds holds one container for every entry of the builder, the
\* container of the system registered under that name, also when two
\* registered systems report the same name(); and every id in a dependants
\* list is the id of a container.
C20_NoSystemLost ==
    build = "built" =>
        /\ Cardinality(Ids) = Cardinality(DOMAIN declared)
        /\ \A name \in DOMAIN declared : Registered(name) \in Ids
        /\ \A id \in Ids :
             Range(system_containers[id].dependants) \subseteq Ids

\* The stage a label refers to, and the place of a stage in the vector.
StageOf(ss, table, label) == ss[table[label] + 1]
PlaceOf(ss, stage) == CHOOSE i \in 1..Len(ss) : ss[i] = stage

\* What an insertion of `stage` under `label` keeps: the stages that were
\* there, in their order, and the stage of every label that was there; the
\* new label refers to the new stage.
InsertionKeeps(label, stage) ==
    /\ Len(stages') = Len(stages) + 1
    /\ SelectSeq(stages', LAMBDA s : s # stage) = stages
    /\ DOMAIN index_table' = DOMAIN index_table \cup {label}
    /\ \A l \in DOMAIN index_table :
         /\ index_table'[l] \in 0..(Len(stages') - 1)
         /\ StageOf(stages', index_table', l) = StageOf(stages, index_table, l)
    /\ index_table'[label] \in 0..(Len(stages') - 1)
    /\ StageOf(stages', index_table', label) = stage

\* The step part of C21, for the calls that return.
StageOrderStep ==
    schedule_state' = "ok" =>
        /\ call'.op = "add" =>
              /\ InsertionKeeps(call'.label, call'.stage)
              /\ stages'[Len(stages')] = call'.stage
        /\ call'.op = "add_before" =>
              /\ InsertionKeeps(call'.label, call'.stage)
              /\ LET target ==
                         StageOf(stages, index_table, call'.target_label)
                 IN  PlaceOf(stages', call'.stage)
                         = PlaceOf(stages', target) - 1
        /\ call'.op = "add_after" =>
              /\ InsertionKeeps(call'.label, call'.stage)
              /\ LET target ==
                         StageOf(stages, index_table, call'.target_label)
                 IN  PlaceOf(stages', call'.stage)
                         = PlaceOf(stages', target) + 1
        /\ call'.op = "run" =>
              /\ call'.result = stages
              /\ stages' = stages
              /\ \A s \in Range(stages) : CountIn(s, call'.result) = 1

\* C21. Stage insertion order: add puts the new stage last, add_before
\* immediately before the stage of the target label and add_after
\* immediately after it; the stages that were there keep their order, the
\* labels that were there keep their stage and the new label refers to the
\* new stage; run executes the stages in the order of the vector, each
\* once.
C21_StageInsertionOrder == [][StageOrderStep]_vars

\* The four calls of examples/example.rs: two stages added, a third one
\* inserted before the second, a fourth one inserted after the third.
C21_Witness ==
    /\ schedule_state = "ok"
    /\ call.op = "add_after"
    /\ stages = <<1, 3, 4, 2>>
    /\ StageOf(stages, index_table, call.target_label) = 3
    /\ StageOf(stages, index_table, call.label) = 4

\* The state part of C22: while no call has panicked the table maps the
\* labels one-to-one onto the positions of the vector.
LabelTable ==
    schedule_state = "ok" =>
        /\ \A l \in DOMAIN index_table :
             index_table[l] \in 0..(Len(stages) - 1)
        /\ \A a \in DOMAIN index_table, b \in DOMAIN index_table :
             index_table[a] = index_table[b] => a = b
        /\ Cardinality(DOMAIN index_table) = Len(stages)

\* The step part of C22: a remove that returns has, for a label of the
\* table, returned its stage and taken that label and that stage away,
\* leaving the other stages in their order and the other labels on their
\* stages; for any other label it has returned None and changed nothing.
RemoveStep ==
    (schedule_state' = "ok" /\ call'.op = "remove") =>
        IF call'.label \in DOMAIN index_table
        THEN LET stage == StageOf(stages, index_table, call'.label)
             IN  /\ call'.result = {stage}
                 /\ stages' = SelectSeq(stages, LAMBDA s : s # stage)
                 /\ Len(stages') = Len(stages) - 1
                 /\ DOMAIN index_table' = DOMAIN index_table \ {call'.label}
                 /\ \A l \in DOMAIN index_table' :
                      StageOf(stages', index_table', l)
                          = StageOf(stages, index_table, l)
        ELSE /\ call'.result = {}
             /\ stages' = stages
             /\ index_table' = index_table

\* C22. Schedule label table invariant: after any sequence of add,
\* add_before, add_after and remove calls that returned, index_table is a
\* one-to-one map from the labels onto the positions 0..len(stages)-1;
\* remove of a label of the table removes that label and its stage and
\* nothing else; remove of another label returns None and changes nothing.
C22_LabelTableInvariant == [](LabelTable) /\ [][RemoveStep]_vars

\* Three stages were added and the one in the middle was removed: the
\* label of the third stage refers to position 1.
C22_Witness ==
    /\ schedule_state = "ok"
    /\ call.op = "remove"
    /\ call.result = {2}
    /\ stages = <<1, 3>>
    /\ \E l \in DOMAIN index_table : index_table[l] = 1

====
